---------------------------- MODULE Spec2Model ----------------------------
(***************************************************************************)
(* A model of code/python/driver/run_tools_on_chunks.py: genomes are split *)
(* into chunks, gene finders are run on the chunk file, the predictions    *)
(* are shifted back to the coordinates of the parent sequence, and one     *)
(* row per (genome, tool, chunk size) is collected into a summary.         *)
(*                                                                         *)
(* Identifiers of sequences are modelled as tuples of one-character        *)
(* strings, so that str.split("_offset") is computed and not assumed.      *)
(*                                                                         *)
(* Two functions are modelled on their own: the walk of GenomeSplitter     *)
(* over one annotated sequence (SpecSplit) and powerset of                 *)
(* code/python/lib/mg_general/shelf.py (SpecPowerset).                     *)
(***************************************************************************)
EXTENDS Integers, Sequences, FiniteSets, TLC

VARIABLES
    args,      \* the parsed command line / keyword arguments of the entry point
    world,     \* outside the program: what the gene finders predict on a chunk,
               \* and whether pd-work holds the files of an earlier run
    main_pc,   \* position of the entry point: start, dispatched, done, failed
    gi_pc,     \* per genome: position of run_tools_on_gi
    gi_df,     \* per genome: the table run_tools_on_gi returned (rows)
    unit,      \* per (genome, chunk index): the frame of run_tools_on_chunk
    scratch,   \* the *.fasta scratch files of pd-work: name -> creating unit
    pred,      \* the prediction.gff files: path -> labels, or Absent
    summary,   \* the file pf_summary: rows, or Absent
    env,       \* the Environment the entry point hands to every unit of work
    gs,        \* a GenomeSplitter at work on one sequence
    ps         \* a call of powerset of mg_general/shelf.py

vars == <<args, world, main_pc, gi_pc, gi_df, unit, scratch, pred, summary,
          env, gs, ps>>

-----------------------------------------------------------------------------
(* Bounds of the model *)

\* the gene finders predict at most one gene per chunk, inside 0..MaxRight
MaxRight == 2
\* names mkstemp can hand out (more than the units that exist)
NumScratchNames == 4
\* the longest sequence a GenomeSplitter is given on its own
MaxSeqLen == 4
\* the longest list powerset is called with
MaxListLen == 3

-----------------------------------------------------------------------------
(* Strings *)

OFFSET == <<"_", "o", "f", "f", "s", "e", "t">>

Digit(d) ==
    CASE d = 0 -> "0" [] d = 1 -> "1" [] d = 2 -> "2" [] d = 3 -> "3"
      [] d = 4 -> "4" [] d = 5 -> "5" [] d = 6 -> "6" [] d = 7 -> "7"
      [] d = 8 -> "8" [] d = 9 -> "9"

\* Python's str(int) of a non-negative integer
RECURSIVE str(_)
str(n) == IF n < 10 THEN <<Digit(n)>> ELSE str(n \div 10) \o <<Digit(n % 10)>>

IsAt(s, sep, i) ==
    /\ i + Len(sep) - 1 <= Len(s)
    /\ SubSeq(s, i, i + Len(sep) - 1) = sep

\* Python's s.find(sep), 1-based; 0 when sep does not occur
find(s, sep) ==
    IF \E i \in 1..Len(s) : IsAt(s, sep, i)
    THEN CHOOSE i \in 1..Len(s) :
            IsAt(s, sep, i) /\ \A j \in 1..(i - 1) : ~IsAt(s, sep, j)
    ELSE 0

\* s.split(sep)[0]: what precedes the first occurrence
split_first(s, sep) ==
    IF find(s, sep) = 0 THEN s ELSE SubSeq(s, 1, find(s, sep) - 1)

-----------------------------------------------------------------------------
(* The data of the genomes *)

\* a file that does not exist, and a file holding `content`
Absent == [exists |-> FALSE, content |-> <<>>]
File(content) == [exists |-> TRUE, content |-> content]

NoUnit == <<"none", 0>>
NoGene == [left |-> 0, right |-> 0]

GenomeNames == {"g1", "g2"}

\* GenomeInfoList.init_from_file(args.pf_gil)
gil == <<"g1", "g2">>

\* SeqIO.to_dict(SeqIO.parse(pf_sequence, "fasta")): identifier and length of
\* the records of sequence.fasta, in file order
read_sequences_for_gi(g) ==
    IF g = "g1"
    THEN << [id |-> <<"c">>, len |-> 4] >>
    ELSE << [id |-> <<"c">> \o OFFSET \o <<"x">>, len |-> 3] >>


\* the chunk sizes the runs are made with (--chunk-sizes-nt)
ChunkSizes == {2, 3}

-----------------------------------------------------------------------------
(* GenomeSplitter: the chunks of the sequences of a genome *)

\* the synthetic identifier of the chunk of `parent` that starts at `offset`
ChunkId(parent, offset) == parent \o OFFSET \o str(offset)

\* the chunks of one record for a target length: strides of `chunk`, the
\* last chunk holds the remainder
ChunksOfRecord(rec, chunk) ==
    [k \in 1..(((rec.len - 1) \div chunk) + 1) |->
        [id     |-> ChunkId(rec.id, (k - 1) * chunk),
         offset |-> (k - 1) * chunk,
         len    |-> IF k * chunk <= rec.len THEN chunk
                    ELSE rec.len - (k - 1) * chunk]]

RECURSIVE ChunksOfRecords(_, _)
ChunksOfRecords(recs, chunk) ==
    IF recs = <<>> THEN <<>>
    ELSE ChunksOfRecord(Head(recs), chunk) \o ChunksOfRecords(Tail(recs), chunk)

\* gs.split_sequences_ of GenomeSplitter(read_sequences_for_gi(env, gi), chunk)
\* in the runs of the driver, which are made without
\* --force-split-in-intergenic: splits in coding regions are allowed
split_sequences_(g, chunk) == ChunksOfRecords(read_sequences_for_gi(g), chunk)

\* the coding regions a sequence of length n can hold, and the annotations
\* of at most two of them (they may overlap, or be the same)
Regions(n) == {r \in [left : 0..n, right : 0..n] : r.left < r.right}
Annotations(n) ==
    {<<>>} \cup {<<r>> : r \in Regions(n)}
           \cup {<<r, q>> : r \in Regions(n), q \in Regions(n)}

\* the coding labels that span a boundary: label.left < boundary < label.right
Spanning(labels, boundary) ==
    {i \in DOMAIN labels : labels[i].left < boundary /\ boundary < labels[i].right}

\* the end of the label the chunk is extended to
EndOfSpanning(labels, boundary) ==
    CHOOSE e \in {labels[i].right : i \in Spanning(labels, boundary)} :
        \A i \in Spanning(labels, boundary) : labels[i].right <= e

\* a splitter that gives every chunk the target length, the last one too
next_boundary_unclamped(offset, n, chunk, labels, allow_splits_in_cds) ==
    IF ~allow_splits_in_cds /\ Spanning(labels, offset + chunk) # {}
    THEN EndOfSpanning(labels, offset + chunk)
    ELSE offset + chunk

\* where the chunk that starts at `offset` ends: at the stride, at the end
\* of the sequence, or, when splits in coding regions are not allowed and a
\* coding label spans the stride, at the end of that label
next_boundary(offset, n, chunk, labels, allow_splits_in_cds) ==
    IF offset + chunk >= n THEN n
    ELSE IF ~allow_splits_in_cds /\ Spanning(labels, offset + chunk) # {}
    THEN EndOfSpanning(labels, offset + chunk)
    ELSE offset + chunk

PsIdle == [pc |-> "idle", s |-> <<>>, min_len |-> 0, out |-> <<>>]

GsIdle ==
    [pc |-> "idle", len |-> 0, chunk |-> 0, labels |-> <<>>,
     allow_splits_in_cds |-> TRUE, offset |-> 0, chunks |-> <<>>]

-----------------------------------------------------------------------------
(* The external gene finders *)

Genes ==
    {NoGene} \cup
    {gn \in [left : 0..MaxRight, right : 0..MaxRight] : gn.left < gn.right}

\* the content of prediction.gff after a successful run of a gene finder on
\* the chunk file: chunk-local coordinates, the chunk identifier as seqname
RawPrediction(chunks, gn) ==
    LET hit == SelectSeq(chunks, LAMBDA c : gn.left < gn.right /\ gn.right <= c.len)
    IN  [i \in DOMAIN hit |->
            [seqname |-> hit[i].id, left |-> gn.left, right |-> gn.right]]

-----------------------------------------------------------------------------
(* Reconciliation: run_tools_on_chunk, "update labels file based on offset" *)

\* a mapping keyed by the parent identifier instead of the chunk identifier
seqname_to_offset_by_parent(chunks) ==
    [id \in {split_first(chunks[i].id, OFFSET) : i \in DOMAIN chunks} |->
        LET last == CHOOSE i \in DOMAIN chunks :
                        /\ split_first(chunks[i].id, OFFSET) = id
                        /\ \A j \in DOMAIN chunks :
                              split_first(chunks[j].id, OFFSET) = id => j <= i
        IN  chunks[last].offset]

\* {x[0].id: x[1] for x in gs.split_sequences_}; a later entry wins
seqname_to_offset(chunks) ==
    [id \in {chunks[i].id : i \in DOMAIN chunks} |->
        LET last == CHOOSE i \in DOMAIN chunks :
                        /\ chunks[i].id = id
                        /\ \A j \in DOMAIN chunks : chunks[j].id = id => j <= i
        IN  chunks[last].offset]

\* read_labels_from_file(pf_prediction, shift=0) opens the file: a file that
\* does not exist raises FileNotFoundError
read_labels_from_file_raises(file) == ~file.exists

\* the new seqname of a label: l.seqname().split("_offset")[0]
strip_offset(seqname) == split_first(seqname, OFFSET)

\* a label that keeps its right end where it was
shift_label_left_only(l, map) ==
    [seqname |-> strip_offset(l.seqname),
     left    |-> l.left + map[l.seqname],
     right   |-> l.right]

\* the body of the loop over the labels
shift_label(l, map) ==
    [seqname |-> strip_offset(l.seqname),
     left    |-> l.left + map[l.seqname],
     right   |-> l.right + map[l.seqname]]

\* the loop raises KeyError at the first label whose seqname is no key
KeyErrorIn(labels, map) ==
    \E i \in DOMAIN labels : labels[i].seqname \notin DOMAIN map

update_labels(labels, map) ==
    [i \in DOMAIN labels |-> shift_label(labels[i], map)]

\* a loop that passes over the labels whose seqname is no key
reconcile_labels_skipping(labels, map) ==
    [raises |-> FALSE,
     labels |-> update_labels(
                    SelectSeq(labels, LAMBDA l : l.seqname \in DOMAIN map), map)]

\* the loop over the labels and what write_labels_to_file is given: the
\* loop raises before anything is written
reconcile_labels(labels, map) ==
    [raises |-> KeyErrorIn(labels, map),
     labels |-> IF KeyErrorIn(labels, map) THEN labels
                ELSE update_labels(labels, map)]

-----------------------------------------------------------------------------
(* Paths and rows *)

\* the Environment of the entry point: its working directory is the root
\* of the paths of the model
my_env == [pd_work |-> <<>>]

\* Environment.duplicate(new_values): a copy that holds the new values; the
\* Environment it is called on stays as it is
duplicate(e, new_values) ==
    [original |-> e, copy |-> [e EXCEPT !.pd_work = new_values.pd_work]]

\* os_join(env["pd-work"], gi.name, f"{dn}_{chunk}")
pd_run(g, dn, chunk) == env.pd_work \o <<g, dn, chunk>>

\* os_join(pd_run, "prediction.gff"): one file per directory
pf_prediction(g, dn, chunk) == pd_run(g, dn, chunk)

\* a call that sets the working directory in the Environment it was given
\* and passes that Environment on
tool_env_in_place(e, pd) ==
    [original |-> [e EXCEPT !.pd_work = pd], copy |-> [e EXCEPT !.pd_work = pd]]

\* the Environment of the call of run_tool_on_chunk:
\* env.duplicate({"pd-work": pd_run})
tool_env(e, pd) == duplicate(e, [pd_work |-> pd])

Row(g, t, chunk, pf) ==
    [Genome |-> g, Tool |-> t, ChunkSize |-> chunk, Predictions |-> pf]


-----------------------------------------------------------------------------
(* The arguments *)

\* choices of --tools (argparse rejects any other name)
ToolChoices == {"gms2", "mgm", "mgm2", "mprodigal", "prodigal"}

\* the lists of tools the runs are made with; "glimmer" is no tool the
\* program knows and can only come from a direct caller of run_tools_on_gil
MainToolLists == {<<"prodigal">>, <<"mgm", "mgm2">>}
DirectToolLists == MainToolLists \cup {<<"gms2", "glimmer">>}

\* --dn_tools is not given (None), names one directory, or names the same
\* directory twice
None == <<>>
DnChoices == {None, <<"runA">>, <<"runA", "runA">>}
DnNames == ToolChoices \cup {"glimmer", "runA"}

Strategies == {"threads", "pbs", "direct"}

\* a model file path is only looked at when its tool is selected
InList(x, list) == \E i \in DOMAIN list : list[i] = x

ArgsOf(strategy) ==
    {a \in [strategy       : {strategy},
            tools          : IF strategy = "direct" THEN DirectToolLists
                             ELSE MainToolLists,
            dn_tools       : DnChoices,
            chunks         : {<<2, 3>>},
            pf_mgm2_mod    : BOOLEAN,
            pf_mgm_mod     : BOOLEAN,
            num_processors : IF strategy = "pbs" THEN {1, 2} ELSE {1},
            skip_if_exists : IF strategy = "direct" THEN BOOLEAN ELSE {FALSE}] :
        /\ InList("mgm2", a.tools) \/ a.pf_mgm2_mod
        /\ InList("mgm", a.tools) \/ a.pf_mgm_mod
        /\ Len(a.dn_tools) = 2 =>
              strategy = "pbs" /\ a.num_processors = 1 /\ Len(a.tools) = 2}

\* dn_tools = args.dn_tools if args.dn_tools is not None else tools
dn_tools == IF args.dn_tools = None THEN args.tools ELSE args.dn_tools

Min(a, b) == IF a <= b THEN a ELSE b

\* list(zip(tools, dn_tools)): as long as the shorter of the two
zip_tools == [i \in 1..Min(Len(args.tools), Len(dn_tools)) |->
                [t |-> args.tools[i], dn |-> dn_tools[i]]]

Units == GenomeNames \X {1, 2}
ChunkOf(u) == args.chunks[u[2]]
ScratchNames == 1..NumScratchNames
PredPaths == GenomeNames \X DnNames \X ChunkSizes

IdleUnit ==
    [pc |-> "idle", t |-> 1, pf_chunks |-> 0, list_entries |-> <<>>,
     calls |-> <<>>, err |-> "none"]

\* what an earlier, successful run with the same tools, directory names and
\* chunk sizes left in pd-work: the predictions in the coordinates of the
\* parent sequences, under the seqname the program gives them
EarlierPrediction(chunks, gn) ==
    LET hit == SelectSeq(chunks, LAMBDA c : gn.left < gn.right /\ gn.right <= c.len)
    IN  [i \in DOMAIN hit |->
            [seqname |-> split_first(hit[i].id, OFFSET),
             left    |-> gn.left + hit[i].offset,
             right   |-> gn.right + hit[i].offset]]

EarlierRun(a, gn) ==
    LET dn == IF a.dn_tools = None THEN a.tools ELSE a.dn_tools
    IN  [p \in PredPaths |->
            IF \E i \in 1..Min(Len(a.tools), Len(dn)) : dn[i] = p[2]
            THEN File(EarlierPrediction(split_sequences_(p[1], p[3]), gn))
            ELSE Absent]

Init ==
    /\ args \in UNION {ArgsOf(s) : s \in Strategies}
    /\ world \in [gene : Genes, rerun : BOOLEAN]
    /\ main_pc = "start"
    /\ gi_pc = [g \in GenomeNames |-> "idle"]
    /\ gi_df = [g \in GenomeNames |-> <<>>]
    /\ unit = [u \in Units |-> IdleUnit]
    /\ scratch = [n \in ScratchNames |-> NoUnit]
    /\ pred = IF world.rerun THEN EarlierRun(args, world.gene)
              ELSE [p \in PredPaths |-> Absent]
    /\ summary = Absent
    /\ env = my_env
    /\ gs = GsIdle
    /\ ps = PsIdle

-----------------------------------------------------------------------------
(* Helpers of the program that live outside the driver *)

\* mkstemp_closed(dir=env["pd-work"], suffix=".fasta"): a name no file of
\* the directory has (names are interchangeable: the least free one)
mkstemp_closed(files) ==
    CHOOSE n \in ScratchNames :
        /\ files[n] = NoUnit
        /\ \A m \in ScratchNames : files[m] = NoUnit => n <= m

\* remove_p(pf_chunks)
remove_p(files, pf) == [files EXCEPT ![pf] = NoUnit]

\* pd.concat(list_df, ignore_index=True): the rows of the tables, in order
RECURSIVE concat(_)
concat(list_df) ==
    IF list_df = <<>> THEN <<>> ELSE Head(list_df) \o concat(Tail(list_df))

\* simultaneous_runs of the pool of genome threads
simultaneous_runs == 7

-----------------------------------------------------------------------------
(* run_tool_on_chunk *)

\* get_value(kwargs, key, required=...) raises when a required value is
\* missing; `present` tells whether the value was given
get_value_raises(present, required) == required /\ ~present

\* a version that never looks at the existing file
run_tool_on_chunk_always(tool, exists, exit_ok) ==
    IF \/ get_value_raises(args.pf_mgm2_mod, tool = "mgm2")
       \/ get_value_raises(args.pf_mgm_mod, tool = "mgm")
    THEN "ValueError"
    ELSE IF tool \notin ToolChoices THEN "NotImplementedError"
    ELSE IF exit_ok THEN "ok" ELSE "CalledProcessError"

\* a version whose except clause catches every exception
run_tool_on_chunk_catch_all(tool, exists, exit_ok) ==
    IF \/ get_value_raises(args.pf_mgm2_mod, tool = "mgm2")
       \/ get_value_raises(args.pf_mgm_mod, tool = "mgm")
    THEN "ValueError"
    ELSE IF args.skip_if_exists /\ exists THEN "skipped"
    ELSE IF tool \notin ToolChoices THEN "CalledProcessError"
    ELSE IF exit_ok THEN "ok" ELSE "CalledProcessError"

\* how a call ends: `exists` is os.path.isfile(pf_prediction), `exit_ok`
\* whether the external program exits with status 0
run_tool_on_chunk(tool, exists, exit_ok) ==
    IF \/ get_value_raises(args.pf_mgm2_mod, tool = "mgm2")
       \/ get_value_raises(args.pf_mgm_mod, tool = "mgm")
    THEN "ValueError"
    ELSE IF args.skip_if_exists /\ exists THEN "skipped"
    ELSE IF tool \notin ToolChoices THEN "NotImplementedError"
    ELSE IF exit_ok THEN "ok" ELSE "CalledProcessError"

Raises(outcome) == outcome \in {"ValueError", "NotImplementedError"}

-----------------------------------------------------------------------------
(* The steps *)

Position(g) == CHOOSE i \in DOMAIN gil : gil[i] = g
UnitsOf(g) == {u \in Units : u[1] = g}
Terminated(pc) == pc \in {"done", "failed"}

\* main, up to the dispatch; a direct caller of run_tools_on_gil does not
\* pass through the check of the lengths
MainStart ==
    /\ main_pc = "start"
    /\ main_pc' = IF args.strategy # "direct" /\ Len(args.tools) # Len(dn_tools)
                  THEN "failed" ELSE "dispatched"
    /\ UNCHANGED <<args, world, gi_pc, gi_df, unit, scratch, pred, summary,
                 env, gs, ps>>

\* run_tools_on_gi is entered for a genome: by a thread of run_n_per_thread,
\* or by the loop of run_tools_on_gil (in the batch job, which is given the
\* whole list as its one partition, or in a direct caller)
GiStart(g) ==
    /\ main_pc = "dispatched"
    /\ gi_pc[g] = "idle"
    /\ CASE args.strategy = "threads" ->
              Cardinality({h \in GenomeNames : gi_pc[h] = "running"})
                  < simultaneous_runs
         [] OTHER ->
              \A h \in GenomeNames : Position(h) < Position(g) => gi_pc[h] = "done"
    /\ gi_pc' = [gi_pc EXCEPT ![g] = "running"]
    /\ UNCHANGED <<args, world, main_pc, gi_df, unit, scratch, pred, summary,
                 env, gs, ps>>

\* run_tools_on_chunk, up to the loop: the genome is split and the chunks
\* are written to a fresh scratch file
UnitStart(u) ==
    /\ gi_pc[u[1]] = "running"
    /\ unit[u].pc = "idle"
    /\ \/ args.num_processors > 1
       \/ \A v \in UnitsOf(u[1]) : v[2] < u[2] => unit[v].pc = "done"
    /\ LET pf == mkstemp_closed(scratch)
       IN  /\ scratch' = [scratch EXCEPT ![pf] = u]
           /\ unit' = [unit EXCEPT ![u] =
                  [@ EXCEPT !.pc = IF zip_tools = <<>> THEN "remove" ELSE "tool",
                            !.pf_chunks = pf]]
    /\ UNCHANGED <<args, world, main_pc, gi_pc, gi_df, pred, summary,
                 env, gs, ps>>

\* one call of run_tool_on_chunk from the loop of run_tools_on_chunk
RunTool(u) ==
    /\ unit[u].pc = "tool"
    /\ \E exit_ok \in BOOLEAN :
        LET z       == zip_tools[unit[u].t]
            pf      == pf_prediction(u[1], z.dn, ChunkOf(u))
            input   == scratch[unit[u].pf_chunks]
            envs    == tool_env(env, pd_run(u[1], z.dn, ChunkOf(u)))
            outcome == run_tool_on_chunk(z.t, pred[pf].exists,
                                         exit_ok /\ input # NoUnit)
            call    == [tool |-> z.t, outcome |-> outcome,
                        input |-> IF outcome \in {"ok", "CalledProcessError"}
                                  THEN input ELSE NoUnit,
                        pd_work |-> envs.copy.pd_work]
        IN  /\ env' = envs.original
            /\ unit' = [unit EXCEPT ![u] =
                  IF Raises(outcome)
                  THEN [@ EXCEPT !.pc = "failed", !.err = outcome]
                  ELSE [@ EXCEPT !.pc = "rec", !.calls = Append(@, call)]]
            /\ pred' = IF outcome = "ok"
                       THEN [pred EXCEPT ![pf] =
                               File(RawPrediction(
                                   split_sequences_(input[1], args.chunks[input[2]]),
                                   world.gene))]
                       ELSE pred
    /\ UNCHANGED <<args, world, main_pc, gi_pc, gi_df, scratch, summary,
                 gs, ps>>

\* the rest of the loop body: the labels are read, shifted and written
\* back, and the row of the tool is appended
Reconcile(u) ==
    /\ unit[u].pc = "rec"
    /\ LET z      == zip_tools[unit[u].t]
           pf     == pf_prediction(u[1], z.dn, ChunkOf(u))
           chunks == split_sequences_(u[1], ChunkOf(u))
           map    == seqname_to_offset(chunks)
           labels == pred[pf].content
           result == reconcile_labels(labels, map)
       IN  IF read_labels_from_file_raises(pred[pf])
           THEN /\ unit' = [unit EXCEPT ![u] =
                       [@ EXCEPT !.pc = "failed", !.err = "FileNotFoundError"]]
                /\ pred' = pred
           ELSE IF result.raises
           THEN /\ unit' = [unit EXCEPT ![u] =
                       [@ EXCEPT !.pc = "failed", !.err = "KeyError"]]
                /\ pred' = pred
           ELSE /\ pred' = [pred EXCEPT ![pf] = File(result.labels)]
                /\ unit' = [unit EXCEPT ![u] =
                       [@ EXCEPT !.pc = IF unit[u].t < Len(zip_tools)
                                        THEN "tool" ELSE "remove",
                                 !.t = IF unit[u].t < Len(zip_tools)
                                       THEN unit[u].t + 1 ELSE unit[u].t,
                                 !.list_entries =
                                     Append(@, Row(u[1], z.t, ChunkOf(u), pf))]]
    /\ UNCHANGED <<args, world, main_pc, gi_pc, gi_df, scratch, summary,
                 env, gs, ps>>

\* a cleanup that removes the first scratch file found in pd-work
pf_removed_first(u) ==
    IF \E n \in ScratchNames : scratch[n] # NoUnit
    THEN CHOOSE n \in ScratchNames :
            /\ scratch[n] # NoUnit
            /\ \A m \in ScratchNames : scratch[m] # NoUnit => n <= m
    ELSE unit[u].pf_chunks

\* the file that remove_p(pf_chunks) is called with
pf_removed(u) == unit[u].pf_chunks

\* after the loop: the scratch file is removed and the table returned
RemoveScratch(u) ==
    /\ unit[u].pc = "remove"
    /\ scratch' = remove_p(scratch, pf_removed(u))
    /\ unit' = [unit EXCEPT ![u] = [@ EXCEPT !.pc = "done"]]
    /\ UNCHANGED <<args, world, main_pc, gi_pc, gi_df, pred, summary,
                 env, gs, ps>>

\* the tables of the units of a genome, the last chunk size first
list_df_of_gi_reversed(g) ==
    LET done == SelectSeq([i \in 1..Len(args.chunks) |->
                              <<g, Len(args.chunks) + 1 - i>>],
                          LAMBDA u : unit[u].pc = "done")
    IN  [i \in DOMAIN done |-> unit[done[i]].list_entries]

\* the tables of the units of a genome that returned, in the order of chunks
list_df_of_gi(g) ==
    LET done == SelectSeq([i \in 1..Len(args.chunks) |-> <<g, i>>],
                          LAMBDA u : unit[u].pc = "done")
    IN  [i \in DOMAIN done |-> unit[done[i]].list_entries]

\* run_tools_on_gi ends with an exception: one of a unit run in its loop,
\* or that of pd.concat when no thread returned a table
GiRaise(g) ==
    /\ gi_pc[g] = "running"
    /\ IF args.num_processors > 1
       THEN /\ \A u \in UnitsOf(g) : Terminated(unit[u].pc)
            /\ list_df_of_gi(g) = <<>>
       ELSE \E u \in UnitsOf(g) : unit[u].pc = "failed"
    /\ gi_pc' = [gi_pc EXCEPT ![g] = "failed"]
    /\ UNCHANGED <<args, world, main_pc, gi_df, unit, scratch, pred, summary,
                 env, gs, ps>>

\* run_tools_on_gi returns pd.concat(list_df)
GiReturn(g) ==
    /\ gi_pc[g] = "running"
    /\ \A u \in UnitsOf(g) : Terminated(unit[u].pc)
    /\ IF args.num_processors > 1
       THEN list_df_of_gi(g) # <<>>
       ELSE \A u \in UnitsOf(g) : unit[u].pc = "done"
    /\ gi_pc' = [gi_pc EXCEPT ![g] = "done"]
    /\ gi_df' = [gi_df EXCEPT ![g] = concat(list_df_of_gi(g))]
    /\ UNCHANGED <<args, world, main_pc, unit, scratch, pred, summary,
                 env, gs, ps>>

\* the tables of the genome threads that returned, in the order of gil
list_df_of_main ==
    LET done == SelectSeq(gil, LAMBDA g : gi_pc[g] = "done")
    IN  [i \in DOMAIN done |-> gi_df[done[i]]]

\* the entry point ends with an exception: that of a genome in the loop of
\* run_tools_on_gil, or that of pd.concat when there is no table to
\* concatenate (a thread that raised returns nothing, and the batch job
\* returns what run_tools_on_gil returns: None)
MainRaise ==
    /\ main_pc = "dispatched"
    /\ CASE args.strategy = "threads" ->
              /\ \A g \in GenomeNames : Terminated(gi_pc[g])
              /\ list_df_of_main = <<>>
         [] args.strategy = "pbs" ->
              \/ \E g \in GenomeNames : gi_pc[g] = "failed"
              \/ \A g \in GenomeNames : gi_pc[g] = "done"
         [] OTHER ->
              \E g \in GenomeNames : gi_pc[g] = "failed"
    /\ main_pc' = "failed"
    /\ UNCHANGED <<args, world, gi_pc, gi_df, unit, scratch, pred, summary,
                 env, gs, ps>>

\* main writes df.to_csv(args.pf_summary); run_tools_on_gil, called
\* directly, returns None and writes nothing
MainReturn ==
    /\ main_pc = "dispatched"
    /\ \A g \in GenomeNames : Terminated(gi_pc[g])
    /\ CASE args.strategy = "threads" ->
              /\ list_df_of_main # <<>>
              /\ summary' = File(concat(list_df_of_main))
         [] args.strategy = "pbs" -> FALSE
         [] OTHER ->
              /\ \A g \in GenomeNames : gi_pc[g] = "done"
              /\ summary' = summary
    /\ main_pc' = "done"
    /\ UNCHANGED <<args, world, gi_pc, gi_df, unit, scratch, pred,
                 env, gs, ps>>

Next ==
    \/ MainStart
    \/ \E g \in GenomeNames : GiStart(g)
    \/ \E u \in Units : UnitStart(u)
    \/ \E u \in Units : RunTool(u)
    \/ \E u \in Units : Reconcile(u)
    \/ \E u \in Units : RemoveScratch(u)
    \/ \E g \in GenomeNames : GiRaise(g)
    \/ \E g \in GenomeNames : GiReturn(g)
    \/ MainRaise
    \/ MainReturn

Spec == Init /\ [][Next]_vars

-----------------------------------------------------------------------------
(* GenomeSplitter on one sequence *)

run_vars == <<args, world, main_pc, gi_pc, gi_df, unit, scratch, pred,
              summary, env>>

\* no run of the driver is under way
NoRun ==
    /\ args = CHOOSE a \in ArgsOf("direct") : TRUE
    /\ world = [gene |-> NoGene, rerun |-> FALSE]
    /\ main_pc = "start"
    /\ gi_pc = [g \in GenomeNames |-> "idle"]
    /\ gi_df = [g \in GenomeNames |-> <<>>]
    /\ unit = [u \in Units |-> IdleUnit]
    /\ scratch = [n \in ScratchNames |-> NoUnit]
    /\ pred = [p \in PredPaths |-> Absent]
    /\ summary = Absent
    /\ env = my_env

\* GenomeSplitter(sequences, chunk, labels=..., allow_splits_in_cds=...) on
\* a sequence of length 1..MaxSeqLen with at most two coding regions
InitSplit ==
    /\ NoRun
    /\ ps = PsIdle
    /\ \E n \in 1..MaxSeqLen :
          gs \in [pc : {"walk"}, len : {n}, chunk : 1..MaxSeqLen,
                  labels : Annotations(n), allow_splits_in_cds : BOOLEAN,
                  offset : {0}, chunks : {<<>>}]

\* one chunk is cut off
SplitStep ==
    /\ gs.pc = "walk"
    /\ LET boundary == next_boundary(gs.offset, gs.len, gs.chunk, gs.labels,
                                     gs.allow_splits_in_cds)
       IN  gs' = [gs EXCEPT
                    !.chunks = Append(@, [offset |-> gs.offset,
                                          len    |-> boundary - gs.offset]),
                    !.offset = boundary,
                    !.pc     = IF boundary >= gs.len THEN "done" ELSE "walk"]
    /\ UNCHANGED <<run_vars, ps>>

NextSplit == SplitStep

SpecSplit == InitSplit /\ [][NextSplit]_vars

-----------------------------------------------------------------------------
(* powerset of mg_general/shelf.py *)

\* itertools.combinations(s, r): the r-length subsequences of s, in the
\* lexicographic order of their positions
RECURSIVE combinations(_, _)
combinations(s, r) ==
    IF r = 0 THEN << <<>> >>
    ELSE IF Len(s) < r THEN <<>>
    ELSE LET rest == combinations(Tail(s), r - 1)
         IN  [i \in DOMAIN rest |-> <<Head(s)>> \o rest[i]]
                 \o combinations(Tail(s), r)

\* chain.from_iterable(combinations(s, r) for r in range(from, to + 1))
RECURSIVE chain_from_iterable(_, _, _)
chain_from_iterable(s, from, to) ==
    IF from > to THEN <<>>
    ELSE combinations(s, from) \o chain_from_iterable(s, from + 1, to)

\* a range that stops one size short: range(min_len, len(s))
powerset_short(iterable, min_len) ==
    chain_from_iterable(iterable, min_len, Len(iterable) - 1)

powerset(iterable, min_len) ==
    chain_from_iterable(iterable, min_len, Len(iterable))

PsElements == {"a", "b"}

PsLists == UNION {[1..n -> PsElements] : n \in 0..MaxListLen}

InitPowerset ==
    /\ NoRun
    /\ gs = GsIdle
    /\ ps \in [pc : {"call"}, s : PsLists, min_len : 0..(MaxListLen + 1),
                out : {<<>>}]

PowersetCall ==
    /\ ps.pc = "call"
    /\ ps' = [ps EXCEPT !.pc = "done", !.out = powerset(ps.s, ps.min_len)]
    /\ UNCHANGED <<run_vars, gs>>

NextPowerset == PowersetCall

SpecPowerset == InitPowerset /\ [][NextPowerset]_vars

-----------------------------------------------------------------------------
(* Vocabulary of the properties *)

\* the path of the predictions of the i-th tool in unit u
PathOf(u, i) == pf_prediction(u[1], zip_tools[i].dn, ChunkOf(u))

\* the row of the i-th tool of unit u is among rows
HasRow(rows, u, i) ==
    \E k \in DOMAIN rows :
        rows[k] = Row(u[1], zip_tools[i].t, ChunkOf(u), PathOf(u, i))

\* how the call of the i-th tool of unit u ended, "none" before it is made
OutcomeOf(u, i) ==
    IF i <= Len(unit[u].calls) THEN unit[u].calls[i].outcome ELSE "none"

ToolFailed(u, i) == OutcomeOf(u, i) = "CalledProcessError"

\* the loop body of the i-th tool of unit u has been completed
Reconciled(u, i) == i <= Len(unit[u].list_entries)

MainEnded == main_pc \in {"done", "failed"}

ModelMissing(tool) ==
    \/ get_value_raises(args.pf_mgm2_mod, tool = "mgm2")
    \/ get_value_raises(args.pf_mgm_mod, tool = "mgm")

\* every tool is one of the choices and has the model file it requires,
\* and the two lists are equally long
ValidConfig ==
    /\ Len(args.tools) = Len(dn_tools)
    /\ \A i \in DOMAIN args.tools :
          args.tools[i] \in ToolChoices /\ ~ModelMissing(args.tools[i])

RECURSIVE SumRows(_)
SumRows(S) ==
    IF S = {} THEN 0
    ELSE LET u == CHOOSE x \in S : TRUE
         IN  Len(unit[u].list_entries) + SumRows(S \ {u})

Coordinates(labels) ==
    [k \in DOMAIN labels |-> [left |-> labels[k].left, right |-> labels[k].right]]

\* the genes of the chunks of unit u in the coordinates of their parent
ParentCoordinates(u) ==
    LET chunks == split_sequences_(u[1], ChunkOf(u))
        gn     == world.gene
        hit    == SelectSeq(chunks,
                            LAMBDA c : gn.left < gn.right /\ gn.right <= c.len)
    IN  [k \in DOMAIN hit |->
            [left |-> gn.left + hit[k].offset, right |-> gn.right + hit[k].offset]]

ParentIds(g) ==
    {read_sequences_for_gi(g)[r].id : r \in DOMAIN read_sequences_for_gi(g)}

\* the labels carry no "_offset": they are in the coordinates of the parent
AlreadyReconciled(labels) ==
    \A k \in DOMAIN labels : find(labels[k].seqname, OFFSET) = 0

-----------------------------------------------------------------------------
(* The properties *)

\* C1: a failure of the external tool of one (genome, chunk size, tool) does
\* not abort the run: in a run of main over threads, with valid arguments
\* and an empty pd-work, once main has ended the summary holds the row of
\* every combination whose own tool did not fail.
C1_ToolFailureIsolated ==
    (args.strategy = "threads" /\ ~world.rerun /\ ValidConfig /\ MainEnded)
        => \A u \in Units : \A i \in DOMAIN zip_tools :
              ~ToolFailed(u, i) =>
                  summary.exists /\ HasRow(summary.content, u, i)

\* C2: the labels a tool wrote for the chunks of a unit have, after the
\* reconciliation of the unit, the chunk-local coordinates plus the offset
\* of their chunk, added once (as long as no later call of the unit was
\* given the same file).
C2_ShiftedOnce ==
    \A u \in Units : \A i \in DOMAIN zip_tools :
        (/\ OutcomeOf(u, i) = "ok" /\ Reconciled(u, i)
         /\ \A j \in (i + 1)..Len(unit[u].calls) : PathOf(u, j) # PathOf(u, i))
            => Coordinates(pred[PathOf(u, i)].content) = ParentCoordinates(u)

C2_Witness ==
    \E u \in Units : \E i \in DOMAIN zip_tools :
        /\ OutcomeOf(u, i) = "ok"
        /\ Reconciled(u, i)
        /\ \E k \in DOMAIN pred[PathOf(u, i)].content :
              pred[PathOf(u, i)].content[k].left > world.gene.left

\* C3: after reconciliation the seqname of every label is the identifier of
\* a parent sequence of the genome, also when that identifier contains
\* "_offset" itself.
C3_SeqnameIsParent ==
    \A u \in Units : \A i \in DOMAIN zip_tools :
        (OutcomeOf(u, i) = "ok" /\ Reconciled(u, i))
            => \A k \in DOMAIN pred[PathOf(u, i)].content :
                  pred[PathOf(u, i)].content[k].seqname \in ParentIds(u[1])

\* C4: under every strategy of main the persisted table holds exactly the
\* rows of the units of work: when every tool has run, every unit has
\* returned and main has ended, the summary exists, has as many rows as the
\* units produced together, and holds the row of every combination.
C4_RowCount ==
    (args.strategy \in {"threads", "pbs"} /\ MainEnded
        /\ \A u \in Units :
              /\ unit[u].pc = "done"
              /\ \A i \in DOMAIN zip_tools : OutcomeOf(u, i) = "ok")
        => /\ summary.exists
           /\ Len(summary.content) = SumRows(Units)
           /\ \A u \in Units : \A i \in DOMAIN zip_tools :
                 HasRow(summary.content, u, i)

\* C5: no unit of work that has ended, by a return or by an exception,
\* leaves its scratch file behind.
C5_ScratchRemoved ==
    \A u \in Units :
        Terminated(unit[u].pc) => \A n \in ScratchNames : scratch[n] # u

\* C6: a failure of the external tool is only a gap: the reconciliation of
\* that combination is skipped (the unit does not end in the error of
\* reading or shifting its labels) and neither the table of the unit nor
\* the summary has a row for it.
C6_FailureIsGap ==
    \A u \in Units : \A i \in DOMAIN zip_tools :
        ToolFailed(u, i) =>
            /\ ~(unit[u].pc = "failed" /\ unit[u].t = i)
            /\ ~HasRow(unit[u].list_entries, u, i)
            /\ ~HasRow(summary.content, u, i)

\* C7: the reconciliation step, run over a prediction file whose labels are
\* already in the coordinates of the parent (no "_offset" in the seqname),
\* leaves the file as it is, by writing it back unchanged or by raising:
\* it never adds an offset a second time.
C7_NoDoubleShift ==
    [][\A u \in Units :
          (/\ unit[u].pc = "rec"
           /\ unit'[u].pc # "rec"
           /\ pred[PathOf(u, unit[u].t)].exists
           /\ AlreadyReconciled(pred[PathOf(u, unit[u].t)].content))
              => pred'[PathOf(u, unit[u].t)] = pred[PathOf(u, unit[u].t)]]_vars

C7_Witness ==
    \E u \in Units :
        /\ unit[u].pc = "failed"
        /\ unit[u].err = "KeyError"
        /\ OutcomeOf(u, unit[u].t) = "skipped"
        /\ pred[PathOf(u, unit[u].t)].content # <<>>
        /\ AlreadyReconciled(pred[PathOf(u, unit[u].t)].content)

\* a call of run_tool_on_chunk by unit u with skip_if_exists set, for a
\* prediction file that exists
SkipCase(u) ==
    /\ unit[u].pc = "tool"
    /\ unit'[u] # unit[u]
    /\ args.skip_if_exists
    /\ pred[PathOf(u, unit[u].t)].exists

\* C8 as stated: with skip_if_exists set and the prediction file in place,
\* run_tool_on_chunk runs no external tool, leaves every prediction file
\* as it is and returns.
C8_SkipAlwaysReturns ==
    [][\A u \in Units :
          SkipCase(u) =>
              /\ pred' = pred
              /\ unit'[u].pc = "rec"
              /\ OutcomeOf(u, unit[u].t)' = "skipped"]_vars

\* C8, amended: with skip_if_exists set and the prediction file in place,
\* run_tool_on_chunk runs no external tool and leaves every prediction file
\* as it is; it returns, unless the tool is mgm2 or mgm and its model file
\* is missing: then it raises the error of the missing argument.
C8_SkipIfExists ==
    [][\A u \in Units :
          SkipCase(u) =>
              /\ pred' = pred
              /\ IF ModelMissing(zip_tools[unit[u].t].t)
                 THEN unit'[u].pc = "failed" /\ unit'[u].err = "ValueError"
                 ELSE /\ unit'[u].pc = "rec"
                      /\ OutcomeOf(u, unit[u].t)' = "skipped"]_vars

C8_Witness ==
    \E u \in Units : \E i \in DOMAIN zip_tools :
        /\ args.skip_if_exists
        /\ OutcomeOf(u, i) = "skipped"
        /\ pred[PathOf(u, i)].exists

\* C9: in a run of main, a missing model file of a selected tool and lists
\* of tools and directory names of different lengths abort the run before
\* any genome is chunked, any scratch file created or any tool invoked.
C9_ConfigErrorsFirst ==
    (/\ args.strategy # "direct"
     /\ \/ Len(args.tools) # Len(dn_tools)
        \/ \E i \in DOMAIN args.tools : ModelMissing(args.tools[i]))
        => /\ \A u \in Units : unit[u].pc = "idle" /\ unit[u].calls = <<>>
           /\ \A n \in ScratchNames : scratch[n] = NoUnit

\* C10: the scratch file of a unit of work is its own from its creation to
\* its removal, whatever the other units do meanwhile: the file it named
\* exists and holds its chunks, no other file holds them, and every run of
\* an external tool in the unit read the chunks of the unit.
C10_ScratchExclusive ==
    \A u \in Units :
        /\ unit[u].pc \notin {"idle", "done"} => scratch[unit[u].pf_chunks] = u
        /\ \A n \in ScratchNames : scratch[n] = u => n = unit[u].pf_chunks
        /\ \A k \in DOMAIN unit[u].calls : unit[u].calls[k].input \in {u, NoUnit}

C10_Witness ==
    \E u \in Units : \E v \in Units :
        /\ u # v
        /\ unit[u].pc = "rec" /\ unit[u].calls[unit[u].t].input = u
        /\ unit[v].pc = "rec" /\ unit[v].calls[unit[v].t].input = v

\* C11: no unit of work changes the Environment it is given: after every
\* step of every unit the Environment of the entry point is as it was at
\* the start, and every call of run_tool_on_chunk was handed a copy whose
\* working directory is the directory of its own combination.
C11_EnvironmentUnchanged ==
    /\ env = my_env
    /\ \A u \in Units : \A k \in DOMAIN unit[u].calls :
          unit[u].calls[k].pd_work
              = my_env.pd_work \o <<u[1], zip_tools[k].dn, ChunkOf(u)>>

C11_Witness ==
    \E u \in Units : \E v \in Units :
        /\ u[1] # v[1]
        /\ unit[u].pc = "done" /\ unit[u].calls # <<>>
        /\ unit[u].calls[1].pd_work # env.pd_work
        /\ unit[v].pc = "rec"
        /\ unit[v].calls[unit[v].t].pd_work # unit[u].calls[1].pd_work

\* the identifiers of the chunks of unit u
ChunkIdsOf(u) ==
    LET chunks == split_sequences_(u[1], ChunkOf(u))
    IN  {chunks[k].id : k \in DOMAIN chunks}

\* a label of the prediction file of the current tool of unit u names no
\* chunk of the unit
UnknownChunk(u) ==
    /\ pred[PathOf(u, unit[u].t)].exists
    /\ \E k \in DOMAIN pred[PathOf(u, unit[u].t)].content :
          pred[PathOf(u, unit[u].t)].content[k].seqname \notin ChunkIdsOf(u)

\* C12: when the prediction file holds a label whose seqname is the
\* identifier of no chunk of the unit, the reconciliation step ends in an
\* error: the unit fails with KeyError, the file is not written (no label
\* is shifted, dropped or written back) and no row is appended.
C12_UnknownChunkIsFatal ==
    [][\A u \in Units :
          (unit[u].pc = "rec" /\ unit'[u] # unit[u] /\ UnknownChunk(u))
              => /\ unit'[u].pc = "failed"
                 /\ unit'[u].err = "KeyError"
                 /\ unit'[u].list_entries = unit[u].list_entries
                 /\ pred' = pred]_vars

C12_Witness ==
    \E u \in Units :
        /\ unit[u].pc = "failed"
        /\ unit[u].err = "KeyError"
        /\ UnknownChunk(u)
        /\ OutcomeOf(u, unit[u].t) = "CalledProcessError"

\* the positions at which the splitter has cut the sequence
Boundaries == {gs.chunks[k].offset + gs.chunks[k].len : k \in DOMAIN gs.chunks}

\* C13: when splits in coding regions are not allowed, no boundary of the
\* chunks of a sequence lies strictly inside a coding region of the
\* sequence, also when regions overlap or a region is longer than the
\* target length.
C13_NoSplitInCDS ==
    ~gs.allow_splits_in_cds
        => \A b \in Boundaries : \A i \in DOMAIN gs.labels :
              ~(gs.labels[i].left < b /\ b < gs.labels[i].right)

RECURSIVE SumLen(_)
SumLen(chunks) ==
    IF chunks = <<>> THEN 0 ELSE Head(chunks).len + SumLen(Tail(chunks))

\* the chunks that hold position x of the sequence
Holding(x) ==
    {k \in DOMAIN gs.chunks :
        gs.chunks[k].offset <= x /\ x < gs.chunks[k].offset + gs.chunks[k].len}

\* C14: when no coding region constrains the splitter, the chunks of a
\* sequence are contiguous and do not overlap, none ends after the end of
\* the sequence, and once the sequence is split every position is in
\* exactly one chunk and the lengths of the chunks add up to the length of
\* the sequence.
C14_ChunksPartition ==
    (gs.allow_splits_in_cds \/ gs.labels = <<>>)
        => /\ \A k \in DOMAIN gs.chunks :
                 /\ gs.chunks[k].len > 0
                 /\ gs.chunks[k].offset + gs.chunks[k].len <= gs.len
                 /\ gs.chunks[k].offset =
                        IF k = 1 THEN 0
                        ELSE gs.chunks[k - 1].offset + gs.chunks[k - 1].len
           /\ gs.pc = "done" =>
                 /\ \A x \in 0..(gs.len - 1) : Cardinality(Holding(x)) = 1
                 /\ SumLen(gs.chunks) = gs.len

C14_Witness ==
    /\ gs.pc = "done"
    /\ gs.allow_splits_in_cds
    /\ gs.labels # <<>>
    /\ Len(gs.chunks) >= 2
    /\ gs.chunks[Len(gs.chunks)].len < gs.chunk

\* C15: the summary is written only after all the work has finished: when
\* the summary file exists every unit of work (every genome and chunk size,
\* with every tool) has completed, and a run that ends in an error has
\* written no summary.
C15_SummaryAfterAllWork ==
    /\ summary.exists =>
          \A u \in Units :
              /\ unit[u].pc = "done"
              /\ \A i \in DOMAIN zip_tools : Reconciled(u, i)
    /\ main_pc = "failed" => ~summary.exists

\* a call of run_tool_on_chunk by unit u for a tool the program does not
\* know
UnknownToolCase(u) ==
    /\ unit[u].pc = "tool"
    /\ unit'[u] # unit[u]
    /\ zip_tools[unit[u].t].t \notin ToolChoices

\* C16 as stated: a call of run_tool_on_chunk with an unknown tool raises
\* NotImplementedError to its caller; the error is not logged and passed
\* over as a failure of the external program is, and the call is not made
\* again.
C16_UnknownToolAlwaysFatal ==
    [][\A u \in Units :
          /\ UnknownToolCase(u) =>
                /\ unit'[u].pc = "failed"
                /\ unit'[u].err = "NotImplementedError"
                /\ unit'[u].calls = unit[u].calls
                /\ pred' = pred
          /\ unit[u].pc = "failed" => unit'[u] = unit[u]]_vars

\* C16, amended: a call of run_tool_on_chunk with an unknown tool raises
\* NotImplementedError to its caller, is not logged and passed over, and is
\* not made again, unless skip_if_exists is set and the prediction file
\* exists: then the call returns before the tool is looked at.
C16_UnknownToolFatal ==
    [][\A u \in Units :
          /\ UnknownToolCase(u) =>
                /\ pred' = pred
                /\ IF args.skip_if_exists /\ pred[PathOf(u, unit[u].t)].exists
                   THEN /\ unit'[u].pc = "rec"
                        /\ OutcomeOf(u, unit[u].t)' = "skipped"
                   ELSE /\ unit'[u].pc = "failed"
                        /\ unit'[u].err = "NotImplementedError"
                        /\ unit'[u].calls = unit[u].calls
          /\ unit[u].pc = "failed" => unit'[u] = unit[u]]_vars

C16_Witness ==
    \E u \in Units :
        /\ unit[u].pc = "failed"
        /\ unit[u].err = "NotImplementedError"
        /\ zip_tools[unit[u].t].t \notin ToolChoices
        /\ Len(unit[u].calls) = unit[u].t - 1

\* the combination of the i-th tool of unit u
Combination(u, i) == <<u[1], zip_tools[i].t, ChunkOf(u)>>

\* C17: when the lists of tools and of directory names are equally long,
\* two different combinations of genome, tool and chunk size never have
\* the same prediction file: the rows of two different combinations name
\* different files.
C17_OwnPredictionFile ==
    Len(args.tools) = Len(dn_tools) =>
        \A u \in Units : \A v \in Units :
            \A i \in DOMAIN zip_tools : \A j \in DOMAIN zip_tools :
                (/\ Reconciled(u, i) /\ Reconciled(v, j)
                 /\ Combination(u, i) # Combination(v, j))
                    => unit[u].list_entries[i].Predictions
                           # unit[v].list_entries[j].Predictions

\* the rows run_tools_on_gi returns for genome g when every tool ran:
\* chunk sizes in the order of the input, and for each the tools in the
\* order of the input
RowsInOrder(g) ==
    [k \in 1..(Len(args.chunks) * Len(zip_tools)) |->
        LET c == ((k - 1) \div Len(zip_tools)) + 1
            i == ((k - 1) % Len(zip_tools)) + 1
        IN  Row(g, zip_tools[i].t, args.chunks[c],
                pf_prediction(g, zip_tools[i].dn, args.chunks[c]))]

\* C18: with num_processors = 1, run_tools_on_gi starts a chunk size only
\* after the chunk sizes before it in the input have finished, and the
\* table it returns has the rows in that order: chunk sizes in the order of
\* the input, tools in the order of the input within a chunk size.
C18_SequentialOrder ==
    args.num_processors = 1 =>
        \A g \in GenomeNames :
            /\ \A u \in UnitsOf(g) : \A v \in UnitsOf(g) :
                  (u[2] < v[2] /\ unit[v].pc # "idle") => unit[u].pc = "done"
            /\ gi_pc[g] = "done" => gi_df[g] = RowsInOrder(g)

C18_Witness ==
    \E g \in GenomeNames :
        /\ args.num_processors = 1
        /\ gi_pc[g] = "done"
        /\ Len(zip_tools) = 2
        /\ Len(gi_df[g]) = 4
        /\ gi_df[g][1].ChunkSize # gi_df[g][3].ChunkSize
        /\ gi_df[g][1].Tool # gi_df[g][2].Tool

\* the sets of positions of ps.s of the sizes powerset is asked for
Selections ==
    {A \in SUBSET (1..Len(ps.s)) : Cardinality(A) >= ps.min_len}

Least(A) == CHOOSE x \in A : \A y \in A : x <= y

\* A comes before B: it is smaller, or as large and first in the order of
\* the positions
Before(A, B) ==
    \/ Cardinality(A) < Cardinality(B)
    \/ /\ Cardinality(A) = Cardinality(B)
       /\ A # B
       /\ Least((A \ B) \cup (B \ A)) \in A

\* the elements of ps.s at the positions A, in the order of the positions
Selected(A) ==
    [k \in 1..Cardinality(A) |->
        ps.s[CHOOSE x \in A : Cardinality({y \in A : y < x}) = k - 1]]

RECURSIVE Pow2(_)
Pow2(n) == IF n = 0 THEN 1 ELSE 2 * Pow2(n - 1)

\* C19: powerset(iterable, min_len) returns, for every set of positions of
\* the input of size min_len up to the length of the input, the elements
\* at those positions, each set once, ordered by size and within a size by
\* position; with min_len = 0 it returns 2^n tuples, the empty one first.
C19_Powerset ==
    ps.pc = "done" =>
        /\ Len(ps.out) = Cardinality(Selections)
        /\ \A A \in Selections :
              ps.out[1 + Cardinality({B \in Selections : Before(B, A)})]
                  = Selected(A)
        /\ ps.min_len = 0 =>
              Len(ps.out) = Pow2(Len(ps.s)) /\ ps.out[1] = <<>>

C19_Witness ==
    /\ ps.pc = "done"
    /\ ps.min_len = 1
    /\ ps.s = <<"a", "b", "a">>
    /\ ps.out = << <<"a">>, <<"b">>, <<"a">>, <<"a", "b">>, <<"a", "a">>,
                   <<"b", "a">>, <<"a", "b", "a">> >>

=============================================================================
